---- MODULE Spec2Model ----
(***************************************************************************)
(* wsbm: a WebSocket benchmark.  main reads the flags, fixes the number of  *)
(* requests and starts Run, which spawns `concurrency` goroutines sharing   *)
(* one atomic int32 counter; each goroutine claims ids from the counter and *)
(* calls runTask(id) until the id it gets is greater than `request`.        *)
(*                                                                         *)
(* src/main.go holds two revisions of the program one after the other       *)
(* (lines 1-227 and 229-489).  Run, runTask, openOutput and main are the    *)
(* same in both; stdout.Write, loadQueries and getUrl differ.               *)
(***************************************************************************)
EXTENDS Integers, Sequences, FiniteSets, TLC

\* ------------------------------------------------------------------ bounds
MaxRequest == 2        \* largest value of the flag -n that is tried
MaxConcurrency == 2    \* largest value of the flag -c that is tried
MaxQueries == 2        \* length of the query catalog that is tried
MaxWrites == 2         \* Write calls one writer makes on the stdout sink
MaxPayload == 1        \* longest message payload written to the stdout sink
MaxTaskId == 4         \* largest id getUrl is called with on its own
MaxLines == 2          \* lines of the query file that is tried
MaxMsgs == 3           \* messages one connection delivers in the loop followed
MaxWrap == 2           \* claims followed after the counter has wrapped

Workers == 1..MaxConcurrency

Max(a, b) == IF a >= b THEN a ELSE b
Min(a, b) == IF a <= b THEN a ELSE b

\* Every value the counter can take in a run: request + concurrency at most.
MaxId == Max(MaxRequest, Max(MaxConcurrency, MaxQueries)) + MaxConcurrency
Ids == 0..MaxId

\* -------------------------------------------------------------- constants
TextMessage == 1
BinaryMessage == 2
PingMessage == 9
MsgTypes == {TextMessage, BinaryMessage, PingMessage}

\* flagOutput: "" is the discard sink, "-" the stdout sink, anything else a
\* file prefix.
Outputs == {"", "-", "out"}

VARIABLES
    flagRequest,      \* *flagRequest, the flag -n
    flagConcurrency,  \* *flagConcurrency, the flag -c
    flagOutput,       \* *flagOutput, the flag -o
    queries,          \* the catalog loadQueries returned (b.queries)
    caller,           \* who called Run: "none" (not yet), "main", "direct"
    runPc,            \* position of Run: "idle", "call", "wait", "returned"
    request,          \* Run's parameter request
    concurrency,      \* Run's parameter concurrency
    count,            \* Run's local `var count int32`
    wg,               \* the counter of Run's sync.WaitGroup
    pc,               \* position of each goroutine of Run
    id,               \* each goroutine's local id
    err,              \* the error runTask returned to the goroutine
    executed,         \* the goroutine has called runTask at least once
    claims,           \* per id: times a goroutine obtained it from the counter
    runs,             \* per id: calls of runTask
    urls,             \* per id: calls of getUrl
    sinkOpens,        \* per id: sinks openOutput returned
    sinkCloses,       \* per id: calls of output.Close
    dials,            \* per id: calls of Dial
    connOpens,        \* per id: connections Dial returned
    connCloses,       \* per id: calls of conn.Close
    reads,            \* per id: 1 once ReadMessage has been called, else 0
    startLines,       \* per id: "+ <id> <url>" lines logged
    doneLines,        \* per id: "run task <id> ..." lines logged
    result,           \* per id: what the completion line says
    variant,          \* revision of stdout.Write: 1 (line 39) or 2 (line 268)
    wpc,              \* position of each writer inside stdout.Write
    wcalls,           \* per writer: calls of stdout.Write begun
    wbuf,             \* per writer: the payload of the call in progress
    stdoutBytes,      \* what has been written to os.Stdout, in order
    url,              \* the URL template (b.url)
    calls,            \* per caller of getUrl: pc, its position in getUrl;
                      \* id, the parameter; u, the local u; res, what its
                      \* last call returned
    dry,              \* DryRun: pc ("idle", "loop", "returned"); id, the
                      \* loop variable; log, the lines logged, in order
    loop,             \* the receive loop followed: recvd, what ReadMessage
                      \* returned, in order; written, the payloads given to
                      \* the sink's Write, in order
    load              \* loadQueries: lines, the lines of the file named by
                      \* -q; pc ("idle", "loaded")

mainVars == <<flagRequest, flagConcurrency, flagOutput, queries, caller>>
runVars == <<runPc, request, concurrency, count, wg>>
workerVars == <<pc, id, err, executed>>
taskVars == <<claims, runs, urls, sinkOpens, sinkCloses, dials, connOpens,
              connCloses, reads, startLines, doneLines, result>>
sinkVars == <<variant, wpc, wcalls, wbuf, stdoutBytes>>
extVars == <<url, calls, dry, loop, load>>
vars == <<mainVars, runVars, workerVars, taskVars, sinkVars, extVars>>

\* ------------------------------------------------------- URLs and queries
\* A URL text is kept in parts: its scheme, the segments of its path and the
\* name=value pairs of its query in the order written (the host plays no
\* part in getUrl).  "<id>" is the placeholder, "%zz" a segment url.Parse
\* rejects (an invalid escape).
Templates ==
    { [scheme |-> "ws", path |-> <<"<id>">>, rawQuery |-> <<>>],
      [scheme |-> "http", path |-> <<"p">>,
       rawQuery |-> << <<"c", "<id>">>, <<"a", "9">>, <<"a", "8">> >>],
      [scheme |-> "https", path |-> <<"%zz">>, rawQuery |-> <<>>] }

ExampleTemplate == [scheme |-> "ws", path |-> <<"<id>">>, rawQuery |-> <<>>]

\* fmt.Sprint(id), line 393: the decimal digits of id.
Digit == <<"0", "1", "2", "3", "4", "5", "6", "7", "8", "9">>

RECURSIVE Sprint(_)
Sprint(n) ==
    IF n < 10 THEN Digit[n + 1] ELSE Sprint(n \div 10) \o Digit[(n % 10) + 1]

ReplaceToken(t, i) == IF t = "<id>" THEN Sprint(i) ELSE t

\* strings.Replace(b.url, "<id>", fmt.Sprint(id), -1), line 393: every
\* occurrence of the placeholder, wherever it stands.
ReplaceId(t, i) ==
    [scheme |-> ReplaceToken(t.scheme, i),
     path |-> [n \in DOMAIN t.path |-> ReplaceToken(t.path[n], i)],
     rawQuery |-> [n \in DOMAIN t.rawQuery |->
                     <<ReplaceToken(t.rawQuery[n][1], i),
                       ReplaceToken(t.rawQuery[n][2], i)>>]]

\* What ReadMessage returns (line 442): an error, or a message of some type
\* with its payload.
ReadFailed == [kind |-> "error"]
Message(t, p) == [kind |-> "message", type |-> t, payload |-> p]

\* What getUrl returns or holds: nothing yet, an error, or a *url.URL.
NoUrl == [kind |-> "none"]
UrlError(what) == [kind |-> "error", what |-> what]

\* url.Parse(rawUrl), lines 395-398.
UrlParse(raw) ==
    IF \E n \in DOMAIN raw.path : raw.path[n] = "%zz"
      THEN UrlError("parse url")
      ELSE [kind |-> "url", Scheme |-> raw.scheme, Path |-> raw.path,
            RawQuery |-> raw.rawQuery]

\* url.Values: a map from names to the non-empty list of their values.
EmptyValues == [k \in {} |-> <<>>]

\* url.ParseQuery, and u.Query() of line 402 (line 146): the pairs in the
\* order written, the values of one name collected in that order.
RECURSIVE ParseQuery(_)
ParseQuery(pairs) ==
    IF pairs = <<>>
      THEN EmptyValues
      ELSE LET front == ParseQuery(SubSeq(pairs, 1, Len(pairs) - 1))
               name == pairs[Len(pairs)][1]
               value == pairs[Len(pairs)][2]
           IN  [k \in DOMAIN front \cup {name} |->
                  IF k = name
                    THEN (IF k \in DOMAIN front THEN front[k] ELSE <<>>)
                           \o <<value>>
                    ELSE front[k]]

\* The names that occur, in the byte order url.Values.Encode sorts them by.
KeyOrder == <<"a", "b", "c", "{", "{\"b\":\"2\"}">>

\* query.Encode(), line 406: the pairs sorted by name, the values of one
\* name in their order.
RECURSIVE EncodeFrom(_, _)
EncodeFrom(values, n) ==
    IF n > Len(KeyOrder)
      THEN <<>>
      ELSE (IF KeyOrder[n] \in DOMAIN values
              THEN [i \in 1..Len(values[KeyOrder[n]]) |->
                      <<KeyOrder[n], values[KeyOrder[n]][i]>>]
              ELSE <<>>)
             \o EncodeFrom(values, n + 1)

Encode(values) == EncodeFrom(values, 1)

\* A merge that adds the override's values to the template's (query.Add).
MergeValuesAppend(query, newQuery) ==
    [k \in DOMAIN query \cup DOMAIN newQuery |->
       (IF k \in DOMAIN query THEN query[k] ELSE <<>>)
         \o (IF k \in DOMAIN newQuery THEN newQuery[k] ELSE <<>>)]

\* lines 403-405: query[name] = value for every name of newQuery.
MergeValues(query, newQuery) ==
    [k \in DOMAIN query \cup DOMAIN newQuery |->
       IF k \in DOMAIN newQuery THEN newQuery[k] ELSE query[k]]

\* An index counted from the first task instead of from the id.
SelectIndexFromFirst(i, n) == (i - 1) % n

\* line 401: id%len(b.queries), for id >= 0.
SelectIndex(i, n) == i % n

\* lines 409-415.
WsScheme(scheme) ==
    CASE scheme = "http" -> "ws"
      [] scheme = "https" -> "wss"
      [] OTHER -> scheme

\* The catalog entries tried (second revision: url.Values).
Entries ==
    { [k \in {"a"} |-> <<"1">>],
      [k \in {"b"} |-> <<"2">>],
      [k \in {"a", "c"} |-> IF k = "a" THEN <<"1", "2">> ELSE <<"3">>] }

ValueCatalogs == UNION {[1..n -> Entries] : n \in 0..MaxQueries}

\* ------------------------------------------------------------ loadQueries
\* The lines of the query file tried: blank, a query string, a query
\* string with an invalid escape, a JSON object, an unbalanced "{"; each
\* with or without white space around it.
Bodies == {"", "a=1", "a=%zz", "{\"b\":\"2\"}", "{"}
FileLines == [pad : BOOLEAN, body : Bodies]
Files == UNION {[1..n -> FileLines] : n \in 0..MaxLines}

\* bytes.TrimSpace(line), line 323 (line 72): the white space around the
\* line goes.
TrimLine(l) == l.body

\* line[0] == '{', line 328.
StartsWithBrace(text) == text \in {"{\"b\":\"2\"}", "{"}

\* parseJson, lines 286-298: json.Unmarshal fails on the unbalanced "{".
ParseJson(text) ==
    IF text = "{\"b\":\"2\"}"
      THEN [ok |-> TRUE, values |-> [k \in {"b"} |-> <<"2">>]]
      ELSE [ok |-> FALSE, values |-> EmptyValues]

\* The name=value pairs url.ParseQuery finds in a text: a text without "="
\* is one name with the empty value.
TextPairs(text) ==
    CASE text = "" -> <<>>
      [] text = "a=1" -> << <<"a", "1">> >>
      [] OTHER -> << <<text, "">> >>

\* parseQuery, lines 300-302, and url.ParseQuery of line 141: fails on the
\* invalid escape.
ParseQueryText(text) ==
    IF text = "a=%zz"
      THEN [ok |-> FALSE, values |-> EmptyValues]
      ELSE [ok |-> TRUE, values |-> ParseQuery(TextPairs(text))]

\* loadQueries of the second revision, lines 317-340: a blank line and a
\* line that does not parse are passed over.
RECURSIVE LoadQueries2(_)
LoadQueries2(lines) ==
    IF lines = <<>>
      THEN <<>>
      ELSE LET line == TrimLine(Head(lines))
               q == IF StartsWithBrace(line)
                      THEN ParseJson(line)
                      ELSE ParseQueryText(line)
               rest == LoadQueries2(Tail(lines))
           IN  IF line = "" THEN rest
               ELSE IF ~q.ok THEN rest
               ELSE <<q.values>> \o rest

\* loadQueries of the first revision, lines 66-74: every line, trimmed, as
\* a string.
LoadQueries1(lines) == [n \in DOMAIN lines |-> TrimLine(lines[n])]

LoadQueries(v, lines) ==
    IF v = 1 THEN LoadQueries1(lines) ELSE LoadQueries2(lines)

\* The override a catalog entry stands for when getUrl uses it: the entry
\* itself (line 401), in the first revision the entry parsed (lines 140-144).
EntryQuery(v, entry) ==
    IF v = 1 THEN ParseQueryText(entry) ELSE [ok |-> TRUE, values |-> entry]

\* ----------------------------------------------------------------- getUrl
\* lines 400-407 (139-151) for the URL u: the query of u with the override
\* of the selected entry merged in, encoded again.
MergeQuery(v, u, i, catalog) ==
    LET newQuery == EntryQuery(v, catalog[SelectIndex(i, Len(catalog)) + 1])
    IN  IF ~newQuery.ok
          THEN UrlError("parse query")
          ELSE [u EXCEPT !.RawQuery =
                  Encode(MergeValues(ParseQuery(u.RawQuery), newQuery.values))]

\* getUrl(id), lines 392-418 (125-156), called on its own.
GetUrlOf(v, template, i, catalog) ==
    LET u == UrlParse(ReplaceId(template, i))
        merged == IF u.kind = "url" /\ Len(catalog) > 0
                    THEN MergeQuery(v, u, i, catalog)
                    ELSE u
    IN  IF merged.kind = "url"
          THEN [merged EXCEPT !.Scheme = WsScheme(@)]
          ELSE merged

\* ------------------------------------------------------------------- main
\* The catalogs tried: none (no -q) and one of MaxQueries entries.
Catalogs == {[i \in 1..n |-> "q"] : n \in {0, MaxQueries}}

\* main without the default of lines 475-477.
MainRequestNoDefault(n, c, nq) == IF n < c THEN c ELSE n

\* main without the adjustment of lines 478-480.
MainRequestNoRaise(n, c, nq) == IF n < 1 /\ nq > 0 THEN nq ELSE n

\* main, lines 473-480: the number of requests Run is called with.
MainRequest(n, c, nq) ==
    LET r == IF n < 1 /\ nq > 0 THEN nq ELSE n
    IN  IF r < c THEN c ELSE r

Zero == [i \in Ids |-> 0]

\* The state before main has done anything, the flags apart.
NoRun ==
    /\ caller = "none"
    /\ runPc = "idle"
    /\ request = 0
    /\ concurrency = 0
    /\ count = 0
    /\ wg = 0
    /\ pc = [w \in Workers |-> "unborn"]
    /\ id = [w \in Workers |-> 0]
    /\ err = [w \in Workers |-> "nil"]
    /\ executed = [w \in Workers |-> FALSE]
    /\ claims = Zero
    /\ runs = Zero
    /\ urls = Zero
    /\ sinkOpens = Zero
    /\ sinkCloses = Zero
    /\ dials = Zero
    /\ connOpens = Zero
    /\ connCloses = Zero
    /\ reads = Zero
    /\ startLines = Zero
    /\ doneLines = Zero
    /\ result = [i \in Ids |-> "none"]

InitRun ==
    /\ queries = <<>>
    /\ NoRun

\* No goroutine is inside stdout.Write and nothing is on standard output.
InitSink ==
    /\ wpc = [w \in Workers |-> "idle"]
    /\ wcalls = [w \in Workers |-> 0]
    /\ wbuf = [w \in Workers |-> <<>>]
    /\ stdoutBytes = <<>>

\* getUrl, DryRun and loadQueries have not been called, no receive loop is
\* followed message by message; one template stands for all where the URL
\* is not looked into.
InitUrl ==
    calls = [w \in Workers |->
               [pc |-> "idle", id |-> 0, u |-> NoUrl, res |-> NoUrl]]

InitDry == dry = [pc |-> "idle", id |-> 0, log |-> <<>>]

InitLoop == loop = [recvd |-> <<>>, written |-> <<>>]

InitLoad == load = [lines |-> <<>>, pc |-> "idle"]

InitExt ==
    /\ url = ExampleTemplate
    /\ InitUrl
    /\ InitDry
    /\ InitLoop
    /\ InitLoad

\* The flags are unsigned integers and a string.  No action of Run reads
\* the revision of stdout.Write, so one revision stands for both here.
Init ==
    /\ flagRequest \in 0..MaxRequest
    /\ flagConcurrency \in 0..MaxConcurrency
    /\ flagOutput \in Outputs
    /\ variant = 2
    /\ InitRun
    /\ InitSink
    /\ InitExt

\* main, lines 468-488 (without -dryrun): load the catalog, fix request and
\* concurrency, call Run.
Main ==
    /\ caller = "none"
    /\ \E qs \in Catalogs :
         /\ queries' = qs
         /\ request' = MainRequest(flagRequest, flagConcurrency, Len(qs))
    /\ concurrency' = flagConcurrency
    /\ caller' = "main"
    /\ runPc' = "call"
    /\ UNCHANGED <<flagRequest, flagConcurrency, flagOutput, count, wg>>
    /\ UNCHANGED <<workerVars, taskVars, sinkVars>>
    /\ UNCHANGED extVars

\* Run called with fewer requests than goroutines, as a test of Run can
\* call it and main never does (main's calls are those of Main).
CallRun ==
    /\ caller = "none"
    /\ flagRequest < flagConcurrency
    /\ request' = flagRequest
    /\ concurrency' = flagConcurrency
    /\ caller' = "direct"
    /\ runPc' = "call"
    /\ UNCHANGED <<flagRequest, flagConcurrency, flagOutput, queries, count, wg>>
    /\ UNCHANGED <<workerVars, taskVars, sinkVars>>
    /\ UNCHANGED extVars

\* -------------------------------------------------------------------- Run
\* Run, lines 357-362: wg.Add(concurrency), count = 0, one goroutine per
\* i < concurrency.  A goroutine that exists and has not yet run is at
\* "claim", so spawning them in one step loses no interleaving.
RunStart ==
    /\ runPc = "call"
    /\ wg' = concurrency
    /\ count' = 0
    /\ pc' = [w \in Workers |-> IF w <= concurrency THEN "claim" ELSE "unborn"]
    /\ runPc' = "wait"
    /\ UNCHANGED <<request, concurrency, id, err, executed>>
    /\ UNCHANGED <<mainVars, taskVars, sinkVars>>
    /\ UNCHANGED extVars

\* the largest int32 (count is an int32, line 360).
MaxInt32 == 2147483647

\* A counter that wraps one step before the largest int32.
AddInt32Narrow(c) == IF c >= MaxInt32 - 1 THEN (-MaxInt32) - 1 ELSE c + 1

\* A counter that goes up by two.
AddInt32Twice(c) == c + 2

\* atomic.AddInt32(&count, 1), line 365: the new value; the addition wraps
\* from the largest int32 to the smallest.
AddInt32(c) == IF c = MaxInt32 THEN (-MaxInt32) - 1 ELSE c + 1

\* The exit test off by one either way: the last id is never run, or one id
\* past the total is.
ExitTestSkipsLast(k, total) == k >= total
ExitTestLate(k, total) == k > total + 1

\* line 366: the goroutine leaves its loop.
ExitTest(k, total) == k > total

Bump(f, k) == IF k \in DOMAIN f THEN [f EXCEPT ![k] = @ + 1] ELSE f
Put(f, k, v) == IF k \in DOMAIN f THEN [f EXCEPT ![k] = v] ELSE f

\* Run, lines 365-370: one turn of the goroutine's loop up to the call of
\* runTask; on exit the deferred wg.Done runs (line 363).
Claim(w) ==
    /\ pc[w] = "claim"
    /\ LET k == AddInt32(count) IN
         /\ count' = k
         /\ id' = [id EXCEPT ![w] = k]
         /\ claims' = Bump(claims, k)
         /\ IF ExitTest(k, request)
              THEN /\ pc' = [pc EXCEPT ![w] = "done"]
                   /\ wg' = wg - 1
                   /\ UNCHANGED <<runs, executed>>
              ELSE /\ pc' = [pc EXCEPT ![w] = "getUrl"]
                   /\ runs' = Bump(runs, k)
                   /\ executed' = [executed EXCEPT ![w] = TRUE]
                   /\ UNCHANGED wg
    /\ UNCHANGED <<runPc, request, concurrency, err>>
    /\ UNCHANGED <<urls, sinkOpens, sinkCloses, dials, connOpens, connCloses,
                   reads, startLines, doneLines, result>>
    /\ UNCHANGED <<mainVars, sinkVars>>
    /\ UNCHANGED extVars

\* A wait that is over while one goroutine is still running.
WaitReadyEarly(n) == n <= 1

\* wg.Wait, line 378: returns once the counter is zero.
WaitReady(n) == n = 0

RunWait ==
    /\ runPc = "wait"
    /\ WaitReady(wg)
    /\ runPc' = "returned"
    /\ UNCHANGED <<request, concurrency, count, wg>>
    /\ UNCHANGED <<mainVars, workerVars, taskVars, sinkVars>>
    /\ UNCHANGED extVars

\* ---------------------------------------------------------------- runTask
\* Slips in the exits of runTask and of the goroutine's loop: the goroutine
\* ends at the first failed task, the sink is left open after a failed
\* Dial, a sink that was never opened is closed, no start line is logged,
\* no completion line is logged.
AfterResolveErrorStops == "done"
AfterDialErrorLeaks == "report"
AfterOpenErrorCloses == "closeOutput"
AfterOpenSilent == "dial"
AfterOutputCloseSilent == "claim"

\* Where a goroutine goes when runTask leaves at each of its return
\* statements.  A return runs the deferred calls registered so far, last
\* registered first: conn.Close (line 439), then output.Close (line 430).
AfterResolveError == "report"        \* line 423: nothing deferred yet
AfterOpenError == "report"           \* line 428: nothing deferred yet
AfterOpen == "logStart"              \* lines 430-432
AfterDialError == "closeOutput"      \* line 437: output.Close is deferred
AfterReadError == "closeConn"        \* line 444: both are deferred
AfterConnClose == "closeOutput"      \* deferred output.Close follows
AfterOutputClose == "report"         \* runTask has returned
AfterReport == "claim"               \* line 375: the loop goes round

\* openOutput, lines 275-284: only os.Create can fail.
OpenOutcomes(o) == IF o \in {"", "-"} THEN {TRUE} ELSE {TRUE, FALSE}

inTask == {"getUrl", "openOutput", "logStart", "dial", "read", "write",
           "closeConn", "closeOutput"}

\* runTask, lines 421-424: getUrl returns a URL or an error.  The error
\* depends on the template and on the id (url.Parse of the substituted
\* template; in the first revision also url.ParseQuery of the selected
\* catalog line), so either outcome is possible for each task.
GetUrl(w) ==
    /\ pc[w] = "getUrl"
    /\ urls' = Bump(urls, id[w])
    /\ \E ok \in BOOLEAN :
         IF ok
           THEN /\ pc' = [pc EXCEPT ![w] = "openOutput"]
                /\ UNCHANGED err
           ELSE /\ pc' = [pc EXCEPT ![w] = AfterResolveError]
                /\ err' = [err EXCEPT ![w] = "resolve"]
    /\ UNCHANGED <<id, executed>>
    /\ UNCHANGED <<claims, runs, sinkOpens, sinkCloses, dials, connOpens,
                   connCloses, reads, startLines, doneLines, result>>
    /\ UNCHANGED <<mainVars, runVars, sinkVars>>
    /\ UNCHANGED extVars

\* runTask, lines 426-430: openOutput returns a sink or an error; on
\* success output.Close is deferred.
OpenOutput(w) ==
    /\ pc[w] = "openOutput"
    /\ \E ok \in OpenOutcomes(flagOutput) :
         IF ok
           THEN /\ pc' = [pc EXCEPT ![w] = AfterOpen]
                /\ sinkOpens' = Bump(sinkOpens, id[w])
                /\ UNCHANGED err
           ELSE /\ pc' = [pc EXCEPT ![w] = AfterOpenError]
                /\ err' = [err EXCEPT ![w] = "sink"]
                /\ UNCHANGED sinkOpens
    /\ UNCHANGED <<id, executed>>
    /\ UNCHANGED <<claims, runs, urls, sinkCloses, dials, connOpens, connCloses,
                   reads, startLines, doneLines, result>>
    /\ UNCHANGED <<mainVars, runVars, sinkVars>>
    /\ UNCHANGED extVars

\* runTask, line 432: logf("+ %d %s", id, url.String()).
LogStart(w) ==
    /\ pc[w] = "logStart"
    /\ startLines' = Bump(startLines, id[w])
    /\ pc' = [pc EXCEPT ![w] = "dial"]
    /\ UNCHANGED <<id, err, executed>>
    /\ UNCHANGED <<claims, runs, urls, sinkOpens, sinkCloses, dials, connOpens,
                   connCloses, reads, doneLines, result>>
    /\ UNCHANGED <<mainVars, runVars, sinkVars>>
    /\ UNCHANGED extVars

\* runTask, lines 434-439: Dial returns a connection or an error; on
\* success conn.Close is deferred.
Dial(w) ==
    /\ pc[w] = "dial"
    /\ dials' = Bump(dials, id[w])
    /\ \E ok \in BOOLEAN :
         IF ok
           THEN /\ pc' = [pc EXCEPT ![w] = "read"]
                /\ connOpens' = Bump(connOpens, id[w])
                /\ UNCHANGED err
           ELSE /\ pc' = [pc EXCEPT ![w] = AfterDialError]
                /\ err' = [err EXCEPT ![w] = "connect"]
                /\ UNCHANGED connOpens
    /\ UNCHANGED <<id, executed>>
    /\ UNCHANGED <<claims, runs, urls, sinkOpens, sinkCloses, connCloses, reads,
                   startLines, doneLines, result>>
    /\ UNCHANGED <<mainVars, runVars, sinkVars>>
    /\ UNCHANGED extVars

\* A loop that writes text messages only.
WrittenTextOnly(t) == t = TextMessage

\* line 447: the types whose payload is written.
Written(t) == t \in {TextMessage, BinaryMessage}

\* A read error that runTask returns as no error.
ReadErrorNil == "nil"

\* lines 443-445: the error of ReadMessage is what runTask returns.
ReadError == "read"

\* runTask, lines 442-447: ReadMessage returns an error (a close of the peer
\* included) or a message; a text or binary message goes on to output.Write,
\* a message of another type is dropped.  The stream has no bound: the call
\* can return a message every time.
ReadMessage(w) ==
    /\ pc[w] = "read"
    /\ reads' = Put(reads, id[w], 1)
    /\ \/ /\ pc' = [pc EXCEPT ![w] = AfterReadError]
          /\ err' = [err EXCEPT ![w] = ReadError]
       \/ \E t \in MsgTypes :
            /\ UNCHANGED err
            /\ IF Written(t)
                 THEN pc' = [pc EXCEPT ![w] = "write"]
                 ELSE UNCHANGED pc
    /\ UNCHANGED <<id, executed>>
    /\ UNCHANGED <<claims, runs, urls, sinkOpens, sinkCloses, dials, connOpens,
                   connCloses, startLines, doneLines, result>>
    /\ UNCHANGED <<mainVars, runVars, sinkVars>>
    /\ UNCHANGED extVars

\* runTask, line 448: output.Write(content); its result is ignored and the
\* loop goes round.
Write(w) ==
    /\ pc[w] = "write"
    /\ pc' = [pc EXCEPT ![w] = "read"]
    /\ UNCHANGED <<id, err, executed>>
    /\ UNCHANGED <<mainVars, runVars, taskVars, sinkVars>>
    /\ UNCHANGED extVars

\* the deferred conn.Close of line 439.
ConnClose(w) ==
    /\ pc[w] = "closeConn"
    /\ connCloses' = Bump(connCloses, id[w])
    /\ pc' = [pc EXCEPT ![w] = AfterConnClose]
    /\ UNCHANGED <<id, err, executed>>
    /\ UNCHANGED <<claims, runs, urls, sinkOpens, sinkCloses, dials, connOpens,
                   reads, startLines, doneLines, result>>
    /\ UNCHANGED <<mainVars, runVars, sinkVars>>
    /\ UNCHANGED extVars

\* the deferred output.Close of line 430; runTask then returns.
OutputClose(w) ==
    /\ pc[w] = "closeOutput"
    /\ sinkCloses' = Bump(sinkCloses, id[w])
    /\ pc' = [pc EXCEPT ![w] = AfterOutputClose]
    /\ UNCHANGED <<id, err, executed>>
    /\ UNCHANGED <<claims, runs, urls, sinkOpens, dials, connOpens, connCloses,
                   reads, startLines, doneLines, result>>
    /\ UNCHANGED <<mainVars, runVars, sinkVars>>
    /\ UNCHANGED extVars

\* Run, lines 370-374: the line logged for what runTask returned.
CompletionLine(e) == IF e # "nil" THEN "err:" \o e ELSE "OK"

Report(w) ==
    /\ pc[w] = "report"
    /\ doneLines' = Bump(doneLines, id[w])
    /\ result' = Put(result, id[w], CompletionLine(err[w]))
    /\ err' = [err EXCEPT ![w] = "nil"]
    /\ pc' = [pc EXCEPT ![w] = AfterReport]
    /\ UNCHANGED <<id, executed>>
    /\ UNCHANGED <<claims, runs, urls, sinkOpens, sinkCloses, dials, connOpens,
                   connCloses, reads, startLines>>
    /\ UNCHANGED <<mainVars, runVars, sinkVars>>
    /\ UNCHANGED extVars

WorkerStep(w) ==
    \/ Claim(w)
    \/ GetUrl(w)
    \/ OpenOutput(w)
    \/ LogStart(w)
    \/ Dial(w)
    \/ ReadMessage(w)
    \/ Write(w)
    \/ ConnClose(w)
    \/ OutputClose(w)
    \/ Report(w)

Next ==
    \/ Main
    \/ CallRun
    \/ RunStart
    \/ RunWait
    \/ \E w \in Workers : WorkerStep(w)

Spec == Init /\ [][Next]_vars

\* The runs with the file sink, in which every step of a task can fail.
FairInit == Init /\ flagOutput = "out"

\* Every goroutine that can take a step eventually takes one (the Go
\* scheduler starves no runnable goroutine), and every call of Dial and of
\* ReadMessage returns.
FairSpec ==
    /\ FairInit
    /\ [][Next]_vars
    /\ WF_vars(Main \/ CallRun)
    /\ WF_vars(RunStart)
    /\ WF_vars(RunWait)
    /\ \A w \in Workers : WF_vars(WorkerStep(w))

\* ------------------------------------------------------------ stdout sink
\* With -o "-" every task's sink is the stdout sink (openOutput, line 280),
\* and each goroutine in its receive loop calls stdout.Write for every text
\* or binary message (line 448).  StdoutSpec follows the goroutines of one
\* run through their receive loops and inside stdout.Write, byte by byte.
Bytes == {"a", " "}
Payloads == UNION {[1..n -> Bytes] : n \in 0..MaxPayload}

RECURSIVE TrimLeft(_)
TrimLeft(p) ==
    IF p # <<>> /\ Head(p) = " " THEN TrimLeft(Tail(p)) ELSE p

RECURSIVE TrimRight(_)
TrimRight(p) ==
    IF p # <<>> /\ p[Len(p)] = " "
      THEN TrimRight(SubSeq(p, 1, Len(p) - 1))
      ELSE p

\* bytes.TrimSpace, line 269.
TrimSpace(p) == TrimRight(TrimLeft(p))

\* os.Stdout.Write(p): one call appends p to standard output in one piece
\* (os.File serialises the Write calls made on it).  Each byte is recorded
\* with the goroutine and the call of stdout.Write it comes from.
OsStdoutWrite(out, w, k, p) ==
    out \o [i \in 1..Len(p) |-> [w |-> w, k |-> k, b |-> p[i]]]

\* A state of Run(MaxConcurrency, MaxConcurrency), called by main, in which
\* goroutine w runs task w and every goroutine has connected and stands at
\* ReadMessage.
LoopSnapshot ==
    /\ queries = <<>>
    /\ caller = "main"
    /\ runPc = "wait"
    /\ request = MaxConcurrency
    /\ concurrency = MaxConcurrency
    /\ count = MaxConcurrency
    /\ wg = MaxConcurrency
    /\ pc = [w \in Workers |-> "read"]
    /\ id = [w \in Workers |-> w]
    /\ err = [w \in Workers |-> "nil"]
    /\ executed = [w \in Workers |-> TRUE]
    /\ LET Once == [i \in Ids |-> IF i \in Workers THEN 1 ELSE 0] IN
         /\ claims = Once
         /\ runs = Once
         /\ urls = Once
         /\ sinkOpens = Once
         /\ startLines = Once
         /\ dials = Once
         /\ connOpens = Once
    /\ sinkCloses = Zero
    /\ connCloses = Zero
    /\ reads = Zero
    /\ doneLines = Zero
    /\ result = [i \in Ids |-> "none"]

StdoutInit ==
    /\ flagRequest = MaxConcurrency
    /\ flagConcurrency = MaxConcurrency
    /\ flagOutput = "-"
    /\ variant \in {1, 2}
    /\ LoopSnapshot
    /\ InitSink
    /\ InitExt

\* runTask, lines 442-447, for as long as the goroutine has calls of
\* stdout.Write left.
StdoutRead(w) ==
    /\ wcalls[w] < MaxWrites
    /\ ReadMessage(w)

\* stdout.Write of the first revision, lines 39-41, called from line 186.
StdoutWrite1(w) ==
    /\ variant = 1
    /\ pc[w] = "write"
    /\ \E p \in Payloads :
         stdoutBytes' = OsStdoutWrite(stdoutBytes, w, wcalls[w] + 1, p)
    /\ wcalls' = [wcalls EXCEPT ![w] = @ + 1]
    /\ pc' = [pc EXCEPT ![w] = "read"]
    /\ UNCHANGED <<variant, wpc, wbuf>>
    /\ UNCHANGED <<id, err, executed>>
    /\ UNCHANGED <<mainVars, runVars, taskVars>>
    /\ UNCHANGED extVars

\* stdout.Write of the second revision, lines 269-270, called from line
\* 448: the trimmed payload.
StdoutWrite2(w) ==
    /\ variant = 2
    /\ pc[w] = "write"
    /\ wpc[w] = "idle"
    /\ \E p \in Payloads :
         /\ wbuf' = [wbuf EXCEPT ![w] = TrimSpace(p)]
         /\ stdoutBytes' =
              OsStdoutWrite(stdoutBytes, w, wcalls[w] + 1, TrimSpace(p))
    /\ wcalls' = [wcalls EXCEPT ![w] = @ + 1]
    /\ wpc' = [wpc EXCEPT ![w] = "newline"]
    /\ UNCHANGED variant
    /\ UNCHANGED <<mainVars, runVars, workerVars, taskVars>>
    /\ UNCHANGED extVars

\* stdout.Write of the second revision, lines 271-272: the newline, in a
\* second call of os.Stdout.Write, and the return to the receive loop.
StdoutNewline(w) ==
    /\ pc[w] = "write"
    /\ wpc[w] = "newline"
    /\ stdoutBytes' = OsStdoutWrite(stdoutBytes, w, wcalls[w], <<"\n">>)
    /\ wpc' = [wpc EXCEPT ![w] = "idle"]
    /\ wbuf' = [wbuf EXCEPT ![w] = <<>>]
    /\ pc' = [pc EXCEPT ![w] = "read"]
    /\ UNCHANGED <<variant, wcalls>>
    /\ UNCHANGED <<id, err, executed>>
    /\ UNCHANGED <<mainVars, runVars, taskVars>>
    /\ UNCHANGED extVars

StdoutNext ==
    \E w \in Workers :
        \/ StdoutRead(w)
        \/ StdoutWrite1(w)
        \/ StdoutWrite2(w)
        \/ StdoutNewline(w)

StdoutSpec == StdoutInit /\ [][StdoutNext]_vars

\* ------------------------------------------------- getUrl, step by step
\* UrlSpec follows calls of getUrl on one WsBenchmark (line 483) made by
\* several callers at once, as the goroutines of Run make them (line 421),
\* each call in the steps in which it reads the shared template and the
\* shared catalog.  Run's own state stays out of it.
UrlInit ==
    /\ flagRequest = 0
    /\ flagConcurrency = MaxConcurrency
    /\ flagOutput = ""
    /\ variant = 2
    /\ queries \in ValueCatalogs
    /\ NoRun
    /\ InitSink
    /\ url \in Templates
    /\ InitUrl
    /\ InitDry
    /\ InitLoop
    /\ InitLoad

\* getUrl(id) is called, line 421 (line 383).
UrlCall(w) ==
    /\ calls[w].pc = "idle"
    /\ \E i \in 1..MaxTaskId :
         calls' = [calls EXCEPT ![w] =
                     [pc |-> "parse", id |-> i, u |-> NoUrl, res |-> NoUrl]]
    /\ UNCHANGED <<url, dry, loop, load>>
    /\ UNCHANGED <<mainVars, runVars, workerVars, taskVars, sinkVars>>

\* lines 393-398: the placeholder replaced in the template, the text parsed.
UrlParseStep(w) ==
    /\ calls[w].pc = "parse"
    /\ LET u == UrlParse(ReplaceId(url, calls[w].id)) IN
         IF u.kind = "error"
           THEN calls' = [calls EXCEPT ![w].res = u, ![w].pc = "idle"]
           ELSE calls' = [calls EXCEPT ![w].u = u, ![w].pc = "merge"]
    /\ UNCHANGED <<url, dry, loop, load>>
    /\ UNCHANGED <<mainVars, runVars, workerVars, taskVars, sinkVars>>

\* A merge into the selected entry itself instead of into the map that
\* u.Query() made for this call.
CatalogAfterMergeAliased(catalog, i, u) ==
    [catalog EXCEPT ![SelectIndex(i, Len(catalog)) + 1] = ParseQuery(u.RawQuery)]

\* lines 401-405: the loop writes into query, the map u.Query() has just
\* made; the selected entry and its value lists are only read.
CatalogAfterMerge(catalog, i, u) == catalog

\* lines 400-407: with a catalog, the selected entry merged into the query
\* of u.
UrlMergeStep(w) ==
    /\ calls[w].pc = "merge"
    /\ IF Len(queries) > 0
         THEN LET m == MergeQuery(variant, calls[w].u, calls[w].id, queries) IN
                IF m.kind = "error"
                  THEN /\ calls' = [calls EXCEPT ![w].res = m, ![w].pc = "idle"]
                       /\ UNCHANGED queries
                  ELSE /\ calls' = [calls EXCEPT ![w].u = m, ![w].pc = "scheme"]
                       /\ queries' = CatalogAfterMerge(queries, calls[w].id, m)
         ELSE /\ calls' = [calls EXCEPT ![w].pc = "scheme"]
              /\ UNCHANGED queries
    /\ UNCHANGED <<url, dry, loop, load>>
    /\ UNCHANGED <<flagRequest, flagConcurrency, flagOutput, caller>>
    /\ UNCHANGED <<runVars, workerVars, taskVars, sinkVars>>

\* lines 409-417: the scheme changed, u returned.
UrlSchemeStep(w) ==
    /\ calls[w].pc = "scheme"
    /\ calls' = [calls EXCEPT
                   ![w].res = [calls[w].u EXCEPT !.Scheme = WsScheme(@)],
                   ![w].pc = "idle"]
    /\ UNCHANGED <<url, dry, loop, load>>
    /\ UNCHANGED <<mainVars, runVars, workerVars, taskVars, sinkVars>>

UrlNext ==
    \E w \in Workers :
        \/ UrlCall(w)
        \/ UrlParseStep(w)
        \/ UrlMergeStep(w)
        \/ UrlSchemeStep(w)

UrlSpec == UrlInit /\ [][UrlNext]_vars

\* ------------------------------------------- the counter near its limit
\* CounterSpec takes up a run of main with -n within MaxConcurrency of the
\* largest int32 at the moment when all ids but the last have been claimed
\* and their tasks are over: every goroutine stands at line 365, the
\* counter is request - 1, goroutine w has just run the id count - (w - 1).
\* The per-id records cover the ids of Ids only; those tasks are over (here
\* each with a resolve error).
CounterInit ==
    /\ flagRequest \in {MaxInt32 - d : d \in 0..MaxConcurrency}
    /\ flagConcurrency \in 1..MaxConcurrency
    /\ flagOutput = ""
    /\ variant = 2
    /\ queries = <<>>
    /\ caller = "main"
    /\ runPc = "wait"
    /\ request = flagRequest
    /\ concurrency = flagConcurrency
    /\ count = request - 1
    /\ wg = concurrency
    /\ pc = [w \in Workers |->
               IF w <= concurrency THEN "claim" ELSE "unborn"]
    /\ id = [w \in Workers |->
               IF w <= concurrency THEN count - (w - 1) ELSE 0]
    /\ err = [w \in Workers |-> "nil"]
    /\ executed = [w \in Workers |-> w <= concurrency]
    /\ LET Once == [i \in Ids |-> IF i >= 1 THEN 1 ELSE 0] IN
         /\ claims = Once
         /\ runs = Once
         /\ urls = Once
         /\ doneLines = Once
    /\ result = [i \in Ids |-> IF i >= 1 THEN "err:resolve" ELSE "none"]
    /\ sinkOpens = Zero
    /\ sinkCloses = Zero
    /\ dials = Zero
    /\ connOpens = Zero
    /\ connCloses = Zero
    /\ reads = Zero
    /\ startLines = Zero
    /\ InitSink
    /\ InitExt

\* The counter has wrapped and MaxWrap ids have been claimed since.
WrapFollowed == count < 0 /\ count >= ((-MaxInt32) - 1) + MaxWrap

CounterNext ==
    \/ RunWait
    \/ \E w \in Workers :
         /\ pc[w] = "claim" => ~WrapFollowed
         /\ WorkerStep(w)

CounterSpec == CounterInit /\ [][CounterNext]_vars

\* ------------------------------------------------- loading the catalog
\* LoadSpec: main loads the catalog from the query file (line 468, line
\* 206) with either revision of loadQueries, and tasks then resolve their
\* URLs against it.
LoadInit ==
    /\ flagRequest = 0
    /\ flagConcurrency = 1
    /\ flagOutput = ""
    /\ variant \in {1, 2}
    /\ InitRun
    /\ InitSink
    /\ url \in Templates
    /\ InitUrl
    /\ InitDry
    /\ InitLoop
    /\ \E f \in Files : load = [lines |-> f, pc |-> "idle"]

\* main, line 468: queries, err := loadQueries().
LoadStep ==
    /\ load.pc = "idle"
    /\ queries' = LoadQueries(variant, load.lines)
    /\ load' = [load EXCEPT !.pc = "loaded"]
    /\ UNCHANGED <<flagRequest, flagConcurrency, flagOutput, caller>>
    /\ UNCHANGED <<runVars, workerVars, taskVars, sinkVars>>
    /\ UNCHANGED <<url, calls, dry, loop>>

\* A task resolves its URL against the loaded catalog (line 421).
LoadResolve ==
    /\ load.pc = "loaded"
    /\ \E i \in 1..MaxTaskId :
         calls' = [calls EXCEPT
                     ![1].id = i,
                     ![1].res = GetUrlOf(variant, url, i, queries)]
    /\ UNCHANGED <<mainVars, runVars, workerVars, taskVars, sinkVars>>
    /\ UNCHANGED <<url, dry, loop, load>>

LoadNext == LoadStep \/ LoadResolve

LoadSpec == LoadInit /\ [][LoadNext]_vars

\* ----------------------------------------------------------- receive loop
\* LoopSpec follows the receive loop of one task message by message: the
\* run is Run(1, 1) called by main, its goroutine runs task 1, has
\* connected and stands at ReadMessage.
OneTaskSnapshot ==
    /\ queries = <<>>
    /\ caller = "main"
    /\ runPc = "wait"
    /\ request = 1
    /\ concurrency = 1
    /\ count = 1
    /\ wg = 1
    /\ pc = [w \in Workers |-> IF w = 1 THEN "read" ELSE "unborn"]
    /\ id = [w \in Workers |-> IF w = 1 THEN 1 ELSE 0]
    /\ err = [w \in Workers |-> "nil"]
    /\ executed = [w \in Workers |-> w = 1]
    /\ LET Once == [i \in Ids |-> IF i = 1 THEN 1 ELSE 0] IN
         /\ claims = Once
         /\ runs = Once
         /\ urls = Once
         /\ sinkOpens = Once
         /\ startLines = Once
         /\ dials = Once
         /\ connOpens = Once
    /\ sinkCloses = Zero
    /\ connCloses = Zero
    /\ reads = Zero
    /\ doneLines = Zero
    /\ result = [i \in Ids |-> "none"]

LoopInit ==
    /\ flagRequest = 1
    /\ flagConcurrency = 1
    /\ flagOutput \in Outputs
    /\ variant = 2
    /\ OneTaskSnapshot
    /\ InitSink
    /\ InitExt

\* runTask, lines 442-447, with what ReadMessage returned kept: an error
\* (a close of the peer included), or a message of any type with any
\* payload.
Receive(w) ==
    /\ pc[w] = "read"
    /\ reads' = Put(reads, id[w], 1)
    /\ \/ /\ loop' = [loop EXCEPT !.recvd = Append(@, ReadFailed)]
          /\ pc' = [pc EXCEPT ![w] = AfterReadError]
          /\ err' = [err EXCEPT ![w] = ReadError]
       \/ /\ Len(loop.recvd) < MaxMsgs
          /\ \E t \in MsgTypes, p \in Payloads :
               /\ loop' = [loop EXCEPT !.recvd = Append(@, Message(t, p))]
               /\ IF Written(t)
                    THEN pc' = [pc EXCEPT ![w] = "write"]
                    ELSE UNCHANGED pc
          /\ UNCHANGED err
    /\ UNCHANGED <<id, executed>>
    /\ UNCHANGED <<claims, runs, urls, sinkOpens, sinkCloses, dials, connOpens,
                   connCloses, startLines, doneLines, result>>
    /\ UNCHANGED <<mainVars, runVars, sinkVars>>
    /\ UNCHANGED <<url, calls, dry, load>>

\* runTask, line 448: output.Write(content), content being the payload of
\* the message just read.
SinkWrite(w) ==
    /\ pc[w] = "write"
    /\ loop' = [loop EXCEPT
                  !.written = Append(@, loop.recvd[Len(loop.recvd)].payload)]
    /\ pc' = [pc EXCEPT ![w] = "read"]
    /\ UNCHANGED <<id, err, executed>>
    /\ UNCHANGED <<mainVars, runVars, taskVars, sinkVars>>
    /\ UNCHANGED <<url, calls, dry, load>>

LoopNext ==
    \/ RunWait
    \/ \E w \in Workers :
         \/ Receive(w)
         \/ SinkWrite(w)
         \/ ConnClose(w)
         \/ OutputClose(w)
         \/ Report(w)
         \/ Claim(w)

LoopSpec == LoopInit /\ [][LoopNext]_vars

\* ----------------------------------------------------------------- DryRun
\* main called with -dryrun (line 484): the program before main has done
\* anything, with any template as its argument.
DryInit ==
    /\ flagRequest \in 0..MaxRequest
    /\ flagConcurrency \in 0..MaxConcurrency
    /\ flagOutput \in Outputs
    /\ variant = 2
    /\ InitRun
    /\ InitSink
    /\ url \in Templates
    /\ InitUrl
    /\ InitDry
    /\ InitLoop
    /\ InitLoad

\* main, lines 468-485 with -dryrun: load the catalog, fix request and
\* concurrency, call DryRun, whose loop starts at id 1 (line 382).
DryMain ==
    /\ caller = "none"
    /\ \E qs \in ValueCatalogs :
         /\ queries' = qs
         /\ request' = MainRequest(flagRequest, flagConcurrency, Len(qs))
    /\ concurrency' = flagConcurrency
    /\ caller' = "dryrun"
    /\ dry' = [dry EXCEPT !.pc = "loop", !.id = 1]
    /\ UNCHANGED <<flagRequest, flagConcurrency, flagOutput, runPc, count, wg>>
    /\ UNCHANGED <<workerVars, taskVars, sinkVars>>
    /\ UNCHANGED <<url, calls, loop, load>>

\* A loop that ends at the first id that does not resolve.
DryAfterErrorStops == "returned"

\* line 386: continue.
DryAfterError == "loop"

\* DryRun, lines 382-389: one turn of the loop.
DryStep ==
    /\ dry.pc = "loop"
    /\ dry.id <= request
    /\ urls' = Bump(urls, dry.id)
    /\ LET u == GetUrlOf(variant, url, dry.id, queries) IN
         IF u.kind = "error"
           THEN dry' = [pc |-> DryAfterError,
                        id |-> dry.id + 1,
                        log |-> Append(dry.log, [id |-> dry.id,
                                                 text |-> "get url err",
                                                 url |-> u])]
           ELSE dry' = [pc |-> dry.pc,
                        id |-> dry.id + 1,
                        log |-> Append(dry.log, [id |-> dry.id,
                                                 text |-> "+",
                                                 url |-> u])]
    /\ UNCHANGED <<claims, runs, sinkOpens, sinkCloses, dials, connOpens,
                   connCloses, reads, startLines, doneLines, result>>
    /\ UNCHANGED <<mainVars, runVars, workerVars, sinkVars>>
    /\ UNCHANGED <<url, calls, loop, load>>

\* DryRun, line 382: id <= request is false, DryRun returns.
DryReturn ==
    /\ dry.pc = "loop"
    /\ dry.id > request
    /\ dry' = [dry EXCEPT !.pc = "returned"]
    /\ UNCHANGED <<mainVars, runVars, workerVars, taskVars, sinkVars>>
    /\ UNCHANGED <<url, calls, loop, load>>

DryNext == DryMain \/ DryStep \/ DryReturn

DrySpec == DryInit /\ [][DryNext]_vars

\* ------------------------------------------------------------- properties
Returned == runPc = "returned"
Tasks == 1..request
Spawned == 1..concurrency

\* runTask(i) is running: it was called and has not returned.
Running(i) == \E w \in Workers : id[w] = i /\ pc[w] \in inTask

\* runTask(i) has returned and its goroutine has not yet logged the result.
Reporting(i) == \E w \in Workers : id[w] = i /\ pc[w] = "report"

\* runTask(i) was called and has returned.
TaskReturned(i) == runs[i] = 1 /\ ~Running(i)

\* What runTask(i) returned, once it has.
Outcome(i) ==
    IF Reporting(i)
      THEN CompletionLine(err[CHOOSE w \in Workers :
                                 id[w] = i /\ pc[w] = "report"])
      ELSE result[i]

\* C1: for total >= 1 and concurrency >= 1, in every interleaving each id of
\* 1..total is obtained from the counter by exactly one goroutine and
\* runTask is called for it exactly once: never twice (a failed task is not
\* run again), never for an id outside 1..total, and none is left out once
\* the counter has passed it or Run has returned.
C1_ClaimedExactlyOnce ==
    /\ count \in Ids
    /\ \A i \in Ids :
         /\ claims[i] <= 1
         /\ runs[i] <= 1
         /\ runs[i] = 1 => i \in Tasks /\ claims[i] = 1
         /\ (i \in Tasks /\ i <= count) => claims[i] = 1 /\ runs[i] = 1
    /\ (Returned /\ request >= 1 /\ concurrency >= 1) =>
         \A i \in Tasks : claims[i] = 1 /\ runs[i] = 1

C1_Witness ==
    /\ Returned
    /\ request >= 2
    /\ concurrency >= 2
    /\ \A w \in Spawned : executed[w]
    /\ result[1] = "err:resolve"
    /\ \A i \in Tasks : runs[i] = 1

\* C2: Run has returned only when every one of its `concurrency` goroutines
\* has left its loop, having obtained an id greater than total; none is
\* still inside runTask or about to claim.
C2_JoinBarrier ==
    Returned => \A w \in Spawned : pc[w] = "done" /\ id[w] > request

C2_Witness ==
    /\ Returned
    /\ concurrency >= 2
    /\ request >= 2
    /\ \A w \in Spawned : executed[w]

\* C4: at any moment the number of calls of runTask in progress, and the
\* number of goroutines that have ever called runTask, is at most
\* min(total, concurrency).
C4_EffectiveConcurrency ==
    /\ Cardinality({w \in Workers : pc[w] \in inTask})
         <= Min(request, concurrency)
    /\ Cardinality({w \in Workers : executed[w]}) <= Min(request, concurrency)

C4_Witness ==
    /\ caller = "direct"
    /\ request >= 1
    /\ request < concurrency
    /\ Cardinality({w \in Workers : pc[w] \in inTask}) = request
    /\ \E w \in Spawned : pc[w] = "done" /\ ~executed[w]

\* C5: on every way out of runTask each resource the task opened has been
\* closed exactly once by the time runTask returns, nothing is closed that
\* was not opened, and when Run has returned no sink and no connection is
\* open.
C5_ClosedExactlyOnce ==
    /\ \A i \in Ids :
         /\ sinkOpens[i] <= 1
         /\ connOpens[i] <= 1
         /\ sinkCloses[i] <= sinkOpens[i]
         /\ connCloses[i] <= connOpens[i]
         /\ TaskReturned(i) =>
              /\ sinkCloses[i] = sinkOpens[i]
              /\ connCloses[i] = connOpens[i]
    /\ Returned => \A i \in Ids :
         /\ sinkCloses[i] = sinkOpens[i]
         /\ connCloses[i] = connOpens[i]

C5_Witness ==
    /\ Returned
    /\ \E i, j \in Tasks :
         /\ result[i] = "err:read"
         /\ connCloses[i] = 1
         /\ sinkCloses[i] = 1
         /\ result[j] = "err:connect"
         /\ sinkCloses[j] = 1
         /\ connOpens[j] = 0

\* C6: one task goes resolve, open sink, connect, receive loop, in that
\* order, and a failure cuts the rest off: after a resolve failure no sink
\* is opened and no connection tried; after a sink-open failure no
\* connection is tried and nothing is closed; after a connect failure the
\* sink is closed and ReadMessage is never called.
C6_StepOrder ==
    \A i \in Ids :
      /\ sinkOpens[i] >= 1 => urls[i] = 1
      /\ dials[i] >= 1 => sinkOpens[i] = 1
      /\ dials[i] <= 1
      /\ connOpens[i] >= 1 => dials[i] = 1
      /\ reads[i] >= 1 => connOpens[i] = 1
      /\ Outcome(i) = "err:resolve" =>
           /\ sinkOpens[i] = 0
           /\ dials[i] = 0
           /\ sinkCloses[i] = 0
           /\ connCloses[i] = 0
      /\ Outcome(i) = "err:sink" =>
           /\ sinkOpens[i] = 0
           /\ dials[i] = 0
           /\ sinkCloses[i] = 0
           /\ connCloses[i] = 0
      /\ Outcome(i) = "err:connect" =>
           /\ sinkOpens[i] = 1
           /\ sinkCloses[i] = 1
           /\ connOpens[i] = 0
           /\ connCloses[i] = 0
           /\ reads[i] = 0

C6_Witness ==
    /\ Returned
    /\ \E i, j \in Tasks :
         /\ result[i] = "err:sink"
         /\ urls[i] = 1
         /\ sinkCloses[i] = 0
         /\ result[j] = "err:connect"
         /\ sinkCloses[j] = 1

\* C7 as stated: for every id of 1..total Run logs exactly one completion
\* line, after runTask(id) has returned and before the goroutine claims
\* again.  (Fails for a call of Run with concurrency = 0.)
C7_Original ==
    /\ \A i \in Ids :
         /\ doneLines[i] <= 1
         /\ doneLines[i] = 1 => TaskReturned(i) /\ ~Reporting(i)
         /\ (TaskReturned(i) /\ ~Reporting(i)) => doneLines[i] = 1
    /\ Returned => \A i \in Tasks : doneLines[i] = 1

\* C7, amended: the same, for concurrency >= 1.  A completion line is
\* logged for an id only after runTask(id) has returned, at most once, and
\* before the goroutine that ran it claims again; when Run has returned and
\* concurrency >= 1, every id of 1..total has exactly one such line and no
\* other id has one.
C7_OneCompletionLine ==
    /\ \A i \in Ids :
         /\ doneLines[i] <= 1
         /\ doneLines[i] = 1 => i \in Tasks /\ TaskReturned(i) /\ ~Reporting(i)
         /\ (TaskReturned(i) /\ ~Reporting(i)) => doneLines[i] = 1
         /\ doneLines[i] = 1 <=> result[i] # "none"
    /\ (Returned /\ concurrency >= 1) => \A i \in Tasks : doneLines[i] = 1

C7_Witness ==
    /\ Returned
    /\ concurrency >= 2
    /\ request >= 2
    /\ \A i \in Tasks : doneLines[i] = 1
    /\ \A w \in Spawned : executed[w]

\* C8 as stated: whatever the outcome of a task, one start line is logged
\* for it, before its completion line.  (Fails for a task whose resolve or
\* sink-open failed.)
C8_Original ==
    \A i \in Ids :
      /\ startLines[i] <= 1
      /\ (TaskReturned(i) \/ doneLines[i] = 1) => startLines[i] = 1

\* C8, amended: a start line is logged for a task exactly when its URL
\* resolved and its sink opened, once, before Dial is called and so before
\* the task's completion line; a task whose resolve or sink-open failed
\* gets no start line.
C8_StartLine ==
    \A i \in Ids :
      /\ startLines[i] <= 1
      /\ startLines[i] = 1 => sinkOpens[i] = 1 /\ doneLines[i] <= 1
      /\ dials[i] >= 1 => startLines[i] = 1
      /\ TaskReturned(i) => (startLines[i] = 1 <=> sinkOpens[i] = 1)
      /\ Outcome(i) \in {"err:resolve", "err:sink"} => startLines[i] = 0
      /\ Outcome(i) \in {"err:connect", "err:read"} => startLines[i] = 1

C8_Witness ==
    /\ Returned
    /\ \E i, j \in Tasks :
         /\ result[i] = "err:resolve"
         /\ startLines[i] = 0
         /\ result[j] = "err:read"
         /\ startLines[j] = 1

\* main, lines 473-477: the total main has before it compares it with the
\* concurrency.
Requested ==
    IF flagRequest < 1 /\ Len(queries) > 0 THEN Len(queries) ELSE flagRequest

\* C9 as stated: when the requested total is smaller than the concurrency,
\* main raises it to the concurrency and then every goroutine runs at least
\* one task.  (Fails: one goroutine can claim several ids before another
\* claims its first.)
C9_Original ==
    (caller = "main" /\ Requested < flagConcurrency) =>
        /\ request = concurrency
        /\ Returned => \A w \in Spawned : executed[w]

\* C9, amended: when the requested total is smaller than the concurrency,
\* main raises it to the concurrency before it calls Run (and leaves it
\* alone otherwise), so Run never gets fewer tasks than goroutines; every
\* task is then run exactly once, by at least one and at most `concurrency`
\* goroutines, and a goroutine may end having run no task.
C9_TotalRaised ==
    caller = "main" =>
        /\ concurrency = flagConcurrency
        /\ request >= concurrency
        /\ Requested < flagConcurrency => request = concurrency
        /\ Requested >= flagConcurrency => request = Requested
        /\ (Returned /\ concurrency >= 1) =>
             /\ \A i \in Tasks : runs[i] = 1
             /\ \E w \in Spawned : executed[w]

C9_Witness ==
    /\ caller = "main"
    /\ Returned
    /\ Requested < flagConcurrency
    /\ Requested >= 1
    /\ request = concurrency
    /\ \E w \in Spawned : ~executed[w]
    /\ \A i \in Tasks : runs[i] = 1

\* Every task of the run has been run to its end and reported.
AllTasksDone == \A i \in Tasks : runs[i] = 1 /\ doneLines[i] = 1

\* The goroutine is in the receive loop of runTask (lines 441-450).
InLoop(w) == pc[w] \in {"read", "write"}

\* C3 as stated: if every call of Dial and of ReadMessage returns, Run
\* eventually returns with every task of 1..total run to its end, whatever
\* the tasks' outcomes.  It is stated here for the runs with at least one
\* goroutine only (with concurrency = 0 Run returns at once and has run
\* nothing, see C7), which is all the claim can mean; it fails there too,
\* when a peer keeps sending messages: every ReadMessage returns and the
\* receive loop never ends.
C3_Original == <>(Returned /\ (concurrency >= 1 => AllTasksDone))

\* C3, amended: if concurrency >= 1, every call of Dial and of ReadMessage
\* returns and every receive loop is eventually left through a read error
\* (no peer sends messages for ever), then whatever the tasks' outcomes Run
\* eventually returns, and by then every task of 1..total has been run to
\* its end: no failure stops a goroutine from claiming again or stops
\* another goroutine.  (With concurrency = 0 Run returns having run
\* nothing.)
C3_RunCompletes ==
    (\A w \in Workers : []<>(~InLoop(w)))
        => <>(Returned /\ (concurrency >= 1 => AllTasksDone))

C3_Witness ==
    /\ Returned
    /\ concurrency >= 2
    /\ AllTasksDone
    /\ \E i, j \in Tasks :
         /\ result[i] \in {"err:resolve", "err:sink", "err:connect"}
         /\ result[j] = "err:read"
         /\ i < j

\* The calls of stdout.Write whose bytes are on standard output.
Calls == {<<stdoutBytes[n].w, stdoutBytes[n].k>> : n \in DOMAIN stdoutBytes}

Positions(c) ==
    {n \in DOMAIN stdoutBytes : <<stdoutBytes[n].w, stdoutBytes[n].k>> = c}

\* C10: with the stdout sink and two or more goroutines writing, the bytes
\* of one call of the sink's Write (in the second revision the trimmed
\* payload and its newline) are contiguous on standard output: no byte of
\* another goroutine's call lies between them.
C10_WriteNotTorn ==
    \A c \in Calls :
        \A m, n \in Positions(c) :
            \A k \in m..n : k \in Positions(c)

\* The first revision, which makes one call of os.Stdout.Write, keeps it.
C10_FirstRevision == variant = 1 => C10_WriteNotTorn

\* C11: in dry-run mode the ids 1..total are handled one after the other in
\* increasing order: each is resolved once and logged as one line (the URL,
\* or the error when it does not resolve, after which the next id is
\* handled all the same); no goroutine is started, no sink is opened and no
\* connection is tried.  With the template ws://h/<id> and no catalog the
\* line of id n is ws://h/n.
C11_DryRunSequential ==
    /\ Len(dry.log) = (IF dry.pc = "loop" THEN dry.id - 1
                       ELSE IF dry.pc = "returned" THEN request ELSE 0)
    /\ \A n \in DOMAIN dry.log :
         /\ dry.log[n].id = n
         /\ n <= request
         /\ dry.log[n].url = GetUrlOf(variant, url, n, queries)
         /\ dry.log[n].text = (IF UrlParse(ReplaceId(url, n)).kind = "error"
                                 THEN "get url err" ELSE "+")
         /\ (url = ExampleTemplate /\ queries = <<>>) =>
              dry.log[n].url = [kind |-> "url", Scheme |-> "ws",
                                Path |-> <<Digit[n + 1]>>, RawQuery |-> <<>>]
    /\ \A i \in Ids : urls[i] = (IF i \in DOMAIN dry.log THEN 1 ELSE 0)
    /\ runPc = "idle"
    /\ \A w \in Workers : pc[w] = "unborn"
    /\ \A i \in Ids :
         /\ runs[i] = 0
         /\ sinkOpens[i] = 0
         /\ dials[i] = 0
         /\ connOpens[i] = 0

C11_Witness ==
    /\ dry.pc = "returned"
    /\ request >= 2
    /\ Len(dry.log) = request
    /\ dry.log[1].text = "get url err"
    /\ dry.log[2].id = 2

\* A received message of type text or binary.
IsData(m) == m.kind = "message" /\ m.type \in {TextMessage, BinaryMessage}

\* The payloads of the text and binary messages of s, in the order of s.
DataPayloads(s) ==
    LET d == SelectSeq(s, IsData) IN [n \in DOMAIN d |-> d[n].payload]

\* C12: for one connected task the payloads given to the sink's Write are
\* the payloads of the received text and binary messages, in the order
\* received (the last one is on its way while the goroutine stands at
\* output.Write); a message of another type is not written and does not
\* end the loop; the loop ends at the first read error and nothing is read
\* or written after it.
C12_WrittenInOrder ==
    LET recvd == loop.recvd
        d == DataPayloads(recvd)
    IN  /\ loop.written =
             (IF pc[1] = "write" THEN SubSeq(d, 1, Len(d) - 1) ELSE d)
        /\ pc[1] = "write" => IsData(recvd[Len(recvd)])
        /\ \A n \in DOMAIN recvd : recvd[n].kind = "error" => n = Len(recvd)
        /\ pc[1] \in {"read", "write"} <=>
             (recvd = <<>> \/ recvd[Len(recvd)].kind = "message")
        /\ err[1] # "nil" => recvd # <<>> /\ recvd[Len(recvd)].kind = "error"

C12_Witness ==
    LET recvd == loop.recvd IN
    /\ Returned
    /\ Len(recvd) = 4
    /\ recvd[1].kind = "message" /\ recvd[1].type = BinaryMessage
    /\ recvd[2].kind = "message" /\ recvd[2].type = PingMessage
    /\ recvd[3].kind = "message" /\ recvd[3].type = TextMessage
    /\ recvd[4].kind = "error"
    /\ loop.written = <<recvd[1].payload, recvd[3].payload>>
    /\ recvd[1].payload # recvd[3].payload
    /\ recvd[2].payload # <<>>

\* The call of getUrl by w has returned; what it was called with and what
\* it returned.
Resolved(w) == calls[w].pc = "idle" /\ calls[w].res.kind # "none"

gid(w) == calls[w].id
gres(w) == calls[w].res

\* The query the template has for id i, before any override.
TemplateQuery(i) == UrlParse(ReplaceId(url, i)).RawQuery

\* C13: with a catalog of length L > 0 the override applied to task id is
\* the entry at index id mod L, whoever resolves it and whatever other
\* calls run at the same time: the resolved URL has the values of that
\* entry for each of the entry's names, and no name besides the template's
\* and the entry's.  For L = 2 the ids 1, 2, 3, 4 select the indices 1, 0,
\* 1, 0.  With an empty catalog the query is the template's, as written.
C13_SelectsIdModL ==
    /\ \A w \in Workers :
         (Resolved(w) /\ gres(w).kind = "url") =>
            IF Len(queries) = 0
              THEN gres(w).RawQuery = TemplateQuery(gid(w))
              ELSE LET o == queries[(gid(w) % Len(queries)) + 1]
                       r == ParseQuery(gres(w).RawQuery)
                   IN  /\ \A k \in DOMAIN o : k \in DOMAIN r /\ r[k] = o[k]
                       /\ DOMAIN r =
                            DOMAIN ParseQuery(TemplateQuery(gid(w))) \cup DOMAIN o
    /\ Len(queries) = 2 =>
         [i \in 1..4 |-> SelectIndex(i, Len(queries))] = <<1, 0, 1, 0>>

C13_Witness ==
    /\ Len(queries) = 2
    /\ queries[1] # queries[2]
    /\ \E v, w \in Workers :
         /\ Resolved(v) /\ gid(v) = 3 /\ gres(v).kind = "url"
         /\ Resolved(w) /\ gid(w) = 4 /\ gres(w).kind = "url"
         /\ gres(v) # gres(w)

\* C15: in the URL getUrl returns, every name of the selected override has
\* exactly the override's values (the template's values of that name are
\* gone, not added to), every name of the template's query that the
\* override does not have keeps the template's values, and there is no
\* other name.
C15_OverrideReplaces ==
    \A w \in Workers :
      (Resolved(w) /\ gres(w).kind = "url" /\ Len(queries) > 0) =>
          LET o == queries[SelectIndex(gid(w), Len(queries)) + 1]
              t == ParseQuery(TemplateQuery(gid(w)))
              r == ParseQuery(gres(w).RawQuery)
          IN  /\ \A k \in DOMAIN o : k \in DOMAIN r /\ r[k] = o[k]
              /\ \A k \in DOMAIN t \ DOMAIN o : k \in DOMAIN r /\ r[k] = t[k]
              /\ DOMAIN r \subseteq DOMAIN t \cup DOMAIN o

C15_Witness ==
    \E w \in Workers :
      /\ Resolved(w)
      /\ gres(w).kind = "url"
      /\ gid(w) = 3
      /\ Len(queries) > 0
      /\ LET o == queries[SelectIndex(gid(w), Len(queries)) + 1]
             t == ParseQuery(TemplateQuery(gid(w)))
             r == ParseQuery(gres(w).RawQuery)
         IN  /\ DOMAIN o = {"a"}
             /\ DOMAIN t = {"a", "c"}
             /\ t["a"] = <<"9", "8">>
             /\ r["a"] = <<"1">>
             /\ r["c"] = <<"3">>

\* C16: no call of getUrl changes the template or the catalog, and however
\* the calls of several callers interleave, each returns what getUrl(id)
\* returns when called alone; two calls for the same id return the same.
C16_GetUrlPure ==
    /\ [](\A v, w \in Workers :
            /\ Resolved(w) =>
                 gres(w) = GetUrlOf(variant, url, gid(w), queries)
            /\ (Resolved(v) /\ Resolved(w) /\ gid(v) = gid(w)) =>
                 gres(v) = gres(w))
    /\ [][url' = url /\ queries' = queries]_vars

C16_Witness ==
    /\ Len(queries) > 0
    /\ url.rawQuery # <<>>
    /\ \E v, w \in Workers :
         /\ v # w
         /\ Resolved(v)
         /\ gres(v).kind = "url"
         /\ gid(w) = gid(v)
         /\ calls[w].pc = "scheme"

\* What a line of the query file parses to under the format its first
\* character selects.
ParsesAs(l) ==
    IF StartsWithBrace(TrimLine(l))
      THEN ParseJson(TrimLine(l))
      ELSE ParseQueryText(TrimLine(l))

\* The line is not blank and parses.
Kept(l) == TrimLine(l) # "" /\ ParsesAs(l).ok

\* C14: the catalog loadQueries returns is, in file order, what the
\* non-blank lines that parse under their format parse to, one entry per
\* such line and no other entry (a blank line or a malformed line is no
\* entry), and no task fails to resolve because of a catalog entry: a
\* resolve error is an error of the template.
C14_CatalogOfParsedLines ==
    load.pc = "loaded" =>
        LET good == SelectSeq(load.lines, Kept) IN
          /\ Len(queries) = Len(good)
          /\ \A n \in DOMAIN good :
               EntryQuery(variant, queries[n]) =
                   [ok |-> TRUE, values |-> ParsesAs(good[n]).values]
          /\ gres(1).kind = "error" =>
               UrlParse(ReplaceId(url, gid(1))).kind = "error"

\* The second revision of loadQueries keeps it.
C14_SecondRevision == variant = 2 => C14_CatalogOfParsedLines

\* The first revision: a malformed line is a catalog entry and the task
\* that selects it fails.
C14_FirstRevisionFails ==
    /\ variant = 1
    /\ load.pc = "loaded"
    /\ Len(queries) = Len(load.lines)
    /\ \E n \in DOMAIN load.lines : ~Kept(load.lines[n])
    /\ gres(1) = UrlError("parse query")

\* C17: runTask never returns nil, so the completion line is never the OK
\* line: a goroutine that reports holds an error, the receive loop is left
\* with the read error only, and the line of a task that connected is the
\* line of its read error.
C17_NeverOK ==
    /\ \A i \in Ids : result[i] # "OK"
    /\ \A w \in Workers :
         /\ pc[w] = "report" => err[w] # "nil"
         /\ pc[w] = "closeConn" => err[w] = "read"
    /\ \A i \in Ids :
         (connOpens[i] = 1 /\ TaskReturned(i)) => Outcome(i) = "err:read"

C17_Witness ==
    /\ Returned
    /\ \E i \in Tasks :
         /\ connOpens[i] = 1
         /\ reads[i] = 1
         /\ connCloses[i] = 1
         /\ doneLines[i] = 1
         /\ result[i] = "err:read"

RECURSIVE SumUpTo(_, _)
SumUpTo(f, n) == IF n < 0 THEN 0 ELSE f[n] + SumUpTo(f, n - 1)

\* The claim attempts made so far.
Attempts == SumUpTo(claims, MaxId)

\* C18 as stated, its part about the value: the counter is at most total +
\* concurrency and equals total + concurrency when Run has returned.
\* (Fails for concurrency = 0 and total >= 1: no goroutine claims, the
\* counter stays 0.)
C18_Original ==
    /\ count <= request + concurrency
    /\ Returned => count = request + concurrency

\* C18, amended: the counter starts at 0, changes only when a goroutine
\* claims and then goes up by one, so it is the number of claim attempts;
\* it is at most total + concurrency; when Run has returned it is exactly
\* total + concurrency if concurrency >= 1 (each goroutine has obtained
\* one id greater than total), and 0 if concurrency = 0.
C18_CounterBound ==
    /\ [](/\ count >= 0
          /\ count = Attempts
          /\ count <= request + concurrency
          /\ runPc \in {"idle", "call"} => count = 0
          /\ (Returned /\ concurrency >= 1) => count = request + concurrency
          /\ (Returned /\ concurrency = 0) => count = 0)
    /\ [][/\ count' \in {count, count + 1}
          /\ count' # count =>
               \E w \in Workers : pc[w] = "claim" /\ id'[w] = count']_vars

C18_Witness ==
    /\ Returned
    /\ request >= 2
    /\ concurrency >= 2
    /\ count = request + concurrency
    /\ \A w \in Spawned : id[w] > request

InRange == request <= MaxInt32 - concurrency

\* C20: the counter is an int32.  While total + concurrency <= 2^31 - 1 it
\* does not wrap: it stays between 0 and total + concurrency, every id a
\* goroutine holds is positive, a goroutine that claims once the counter
\* has reached total gets an id that passes the exit test, and Run returns
\* with every goroutine out of its loop.  The exit needs that range: with
\* total = 2^31 - 1 no id is greater than total and no goroutine ever
\* leaves its loop, and the counter is negative only out of that range.
C20_NoWrapInRange ==
    /\ InRange =>
         /\ count >= 0
         /\ count <= request + concurrency
         /\ \A w \in Spawned :
              /\ id[w] >= 1
              /\ (pc[w] = "claim" /\ count >= request) =>
                   ExitTest(AddInt32(count), request)
         /\ Returned => \A w \in Spawned : pc[w] = "done" /\ id[w] > request
    /\ count < 0 => ~InRange
    /\ request = MaxInt32 =>
         /\ ~Returned
         /\ \A w \in Spawned : pc[w] # "done"

C20_Witness ==
    /\ InRange
    /\ concurrency >= 2
    /\ request >= MaxInt32 - MaxConcurrency
    /\ count = MaxInt32
    /\ Returned

\* Out of the range the counter wraps and a task is run with a negative id.
C20_WrapOutOfRange ==
    /\ ~InRange
    /\ count < 0
    /\ \E w \in Spawned : id[w] < 0 /\ pc[w] \in inTask

====
